---- MODULE Spec2Model ----
(***************************************************************************)
(* Steam-methane-reforming flowsheet notebook (gibbs_reactor_src.ipynb).   *)
(*                                                                         *)
(* The notebook is a straight-line script over a modelling framework.  The *)
(* model keeps the script as a listing of statements (Program), each with  *)
(* the notebook line it stands on, and gives one action per kind of        *)
(* statement.  The state is the Pyomo model the script builds: which       *)
(* blocks, arcs, expressions, variables and constraints exist, which       *)
(* variables are fixed, their values and bounds, and what the last solve   *)
(* reported.                                                               *)
(*                                                                         *)
(* Units of the integers: pressure Pa, temperature mK, molar flow mol/s,   *)
(* mole fraction 1e-5, efficiency and conversion 1e-3, power and heat duty *)
(* kW, hydrogen production 1e-3 MM lb/yr, cost rates 1e-7 $/s, operating   *)
(* cost 0.08 $/yr (so that 3600*8000 s/yr * 1e-7 $/s = 36 units).          *)
(* val, lb and ub are partial: they hold the values and bounds the script  *)
(* or the solver has set and that the model follows; a variable outside    *)
(* their domain has a framework default or a value the model does not      *)
(* follow.  Read through Val, Lb and Ub, which give a sequence of length 0 *)
(* or 1: << >> for "not held", <<n>> for the number n.                     *)
(***************************************************************************)
EXTENDS Integers, Sequences, FiniteSets

VARIABLES pc, failed, units, arcs, expanded, exprs, objective, declared,
          constraints, fixed, val, lb, ub, hyd_prod, history, solver,
          results, solves

vars == <<pc, failed, units, arcs, expanded, exprs, objective, declared,
          constraints, fixed, val, lb, ub, hyd_prod, history, solver,
          results, solves>>

----------------------------------------------------------------------------
(* The flowsheet's structure.                                              *)

Components == {"CH4", "H2O", "H2", "CO", "CO2"}

\* State variables of every stream: flow, temperature, pressure and one mole
\* fraction per component.
StateVars == {"flow_mol", "temperature", "pressure"}
             \cup {"mole_frac_comp_CH4", "mole_frac_comp_H2O", "mole_frac_comp_H2",
                   "mole_frac_comp_CO", "mole_frac_comp_CO2"}

Feeds == {"CH4", "H2O"}

Units == {"CH4", "H2O", "PROD", "M101", "H101", "C101", "R101"}

Ports(u) ==
    CASE u \in Feeds  -> {"outlet"}
      [] u = "PROD"   -> {"inlet"}
      [] u = "M101"   -> {"methane_feed", "steam_feed", "outlet"}
      [] OTHER        -> {"inlet", "outlet"}

\* GibbsReactor(has_heat_transfer=False): the reactor has no heat duty.
UnitVars_without_heat_transfer(u) ==
    CASE u = "C101" -> {"work_mechanical", "deltaP", "ratioP",
                        "efficiency_isentropic", "work_isentropic"}
      [] u = "H101" -> {"heat_duty"}
      [] u = "R101" -> {"lagrange_mult_C", "lagrange_mult_H", "lagrange_mult_O"}
      [] OTHER      -> {}

\* Variables a unit adds besides its streams' state variables.
UnitVars(u) ==
    CASE u = "C101" -> {"work_mechanical", "deltaP", "ratioP",
                        "efficiency_isentropic", "work_isentropic"}
      [] u = "H101" -> {"heat_duty"}
      [] u = "R101" -> {"heat_duty", "lagrange_mult_C", "lagrange_mult_H", "lagrange_mult_O"}
      [] OTHER      -> {}

VarsOf(u) == {<<u, p, s>> : p \in Ports(u), s \in StateVars}
             \cup {<<u, "unit", n>> : n \in UnitVars(u)}

\* Equality constraints a unit carries between its own variables: the outlet
\* state of a unit with balances is tied by one equation per component, one
\* energy balance, one pressure balance and one mole-fraction sum.  The
\* Gibbs reactor balances the three elements instead of the components and
\* adds one Gibbs-minimisation condition per component; the compressor adds
\* the definitions of ratioP, of the isentropic work and of the efficiency.
Balances == Cardinality(Components) + 3

NumEq(u) ==
    CASE u = "M101" -> Balances
      [] u = "H101" -> Balances
      [] u = "C101" -> Balances + 3
      [] u = "R101" -> (3 + 3) + Cardinality(Components)
      [] OTHER      -> 0

Arcs == {"s01", "s02", "s03", "s04", "s05", "s06"}

ArcEnds(a) ==
    CASE a = "s01" -> [src |-> <<"CH4", "outlet">>,  dst |-> <<"M101", "methane_feed">>]
      [] a = "s02" -> [src |-> <<"H2O", "outlet">>,  dst |-> <<"M101", "steam_feed">>]
      [] a = "s03" -> [src |-> <<"M101", "outlet">>, dst |-> <<"C101", "inlet">>]
      [] a = "s04" -> [src |-> <<"C101", "outlet">>, dst |-> <<"H101", "inlet">>]
      [] a = "s05" -> [src |-> <<"H101", "outlet">>, dst |-> <<"R101", "inlet">>]
      [] a = "s06" -> [src |-> <<"R101", "outlet">>, dst |-> <<"PROD", "inlet">>]

conversion == <<"R101", "unit", "conversion">>

\* The variables the script names.
C101_outlet_pressure    == <<"C101", "outlet", "pressure">>
C101_outlet_temperature == <<"C101", "outlet", "temperature">>
C101_efficiency         == <<"C101", "unit", "efficiency_isentropic">>
C101_work_isentropic    == <<"C101", "unit", "work_isentropic">>
H101_outlet_temperature == <<"H101", "outlet", "temperature">>
H101_heat_duty          == <<"H101", "unit", "heat_duty">>
R101_heat_duty          == <<"R101", "unit", "heat_duty">>
R101_outlet_temperature == <<"R101", "outlet", "temperature">>

FeedVars == {<<u, "outlet", s>> : u \in Feeds, s \in StateVars}

----------------------------------------------------------------------------
(* Unit conversions the script asks of pyunits.                            *)

bar_to_Pa(b) == b * 100000

K(t) == t * 1000

----------------------------------------------------------------------------
(* The script.  S(line, op, x, v): the statement on notebook line `line`.  *)

S(line, op, x, v) == [line |-> line, op |-> op, x |-> x, v |-> v]

\* An Expression of the flowsheet, named like a variable.
Expr(n) == <<"fs", "expression", n>>

Fix(line, u, s, v) == S(line, "fix", <<u, "outlet", s>>, v)

BuildCell ==
    << S(194, "build", "CH4", 0),  S(195, "build", "H2O", 0),
       S(196, "build", "PROD", 0), S(197, "build", "M101", 0),
       S(200, "build", "H101", 0), S(205, "build", "C101", 0),
       S(216, "build", "R101", 0) >>

\* s06 is left out.
ArcCell_without_s06 ==
    << S(238, "arc", "s01", 0), S(239, "arc", "s02", 0), S(240, "arc", "s03", 0),
       S(241, "arc", "s04", 0), S(242, "arc", "s05", 0), S(243, "print", "s06", 0),
       S(259, "expand_arcs", "m", 0) >>

ArcCell ==
    << S(238, "arc", "s01", 0), S(239, "arc", "s02", 0), S(240, "arc", "s03", 0),
       S(241, "arc", "s04", 0), S(242, "arc", "s05", 0), S(243, "arc", "s06", 0),
       S(259, "expand_arcs", "m", 0) >>

ExpressionCell ==
    << S(284, "expression", Expr("hyd_prod"), 0),     S(300, "expression", Expr("cooling_cost"), 0),
       S(303, "expression", Expr("heating_cost"), 0), S(306, "expression", Expr("compression_cost"), 0),
       S(309, "expression", Expr("operating_cost"), 0) >>

AssertDof20 == << S(331, "print", "degrees_of_freedom", 0), S(345, "assert_dof", "m", 20) >>

FeedCell ==
    << Fix(361, "CH4", "mole_frac_comp_CH4", 100000), Fix(362, "CH4", "mole_frac_comp_H2O", 1),
       Fix(363, "CH4", "mole_frac_comp_H2", 1),       Fix(364, "CH4", "mole_frac_comp_CO", 1),
       Fix(365, "CH4", "mole_frac_comp_CO2", 1),      Fix(366, "CH4", "flow_mol", 75),
       Fix(367, "CH4", "temperature", 298150),        Fix(368, "CH4", "pressure", 100000),
       Fix(370, "H2O", "mole_frac_comp_CH4", 1),      Fix(371, "H2O", "mole_frac_comp_H2O", 100000),
       Fix(372, "H2O", "mole_frac_comp_H2", 1),       Fix(373, "H2O", "mole_frac_comp_CO", 1),
       Fix(374, "H2O", "mole_frac_comp_CO2", 1),      Fix(375, "H2O", "flow_mol", 234),
       Fix(376, "H2O", "temperature", 373150),        Fix(377, "H2O", "pressure", 100000) >>

\* The compressor efficiency is left unspecified.
UnitSpecCell_without_efficiency ==
    << S(395, "fix", C101_outlet_pressure, bar_to_Pa(2)),
       S(396, "print", "efficiency_isentropic", 900),
       S(397, "fix", H101_outlet_temperature, K(500)) >>

UnitSpecCell ==
    << S(395, "fix", C101_outlet_pressure, bar_to_Pa(2)),
       S(396, "fix", C101_efficiency, 900),
       S(397, "fix", H101_outlet_temperature, K(500)) >>

ConversionCell ==
    << S(413, "var", conversion, 800),
       S(417, "constraint", "conv_constraint", 0),
       S(427, "fix", conversion, 800) >>

AssertDof0 == << S(443, "print", "degrees_of_freedom", 0), S(457, "assert_dof", "m", 0) >>

\* The mixer is initialized before the steam feed's state reaches it.
InitCell_M101_before_s02 ==
    << S(474, "initialize", "CH4", 0),  S(475, "propagate_state", "s01", 0),
       S(477, "initialize", "H2O", 0),  S(478, "initialize", "M101", 0),
       S(480, "propagate_state", "s02", 0), S(481, "propagate_state", "s03", 0),
       S(483, "initialize", "C101", 0), S(484, "propagate_state", "s04", 0),
       S(486, "initialize", "H101", 0), S(487, "propagate_state", "s05", 0),
       S(489, "initialize", "R101", 0), S(490, "propagate_state", "s06", 0),
       S(492, "initialize", "PROD", 0), S(495, "get_solver", "solver", 0) >>

InitCell ==
    << S(474, "initialize", "CH4", 0),  S(475, "propagate_state", "s01", 0),
       S(477, "initialize", "H2O", 0),  S(478, "propagate_state", "s02", 0),
       S(480, "initialize", "M101", 0), S(481, "propagate_state", "s03", 0),
       S(483, "initialize", "C101", 0), S(484, "propagate_state", "s04", 0),
       S(486, "initialize", "H101", 0), S(487, "propagate_state", "s05", 0),
       S(489, "initialize", "R101", 0), S(490, "propagate_state", "s06", 0),
       S(492, "initialize", "PROD", 0), S(495, "get_solver", "solver", 0) >>

SquareSolveCell == << S(507, "solve", "m", 0) >>

SquareStatusCell == << S(523, "assert_optimal", "results", 0) >>

\* 39.958 million $/yr is 499 475 000 units of 0.08 $/yr.
SquareCheckCell ==
    << S(557, "assert_approx", Expr("operating_cost"), 499475000),
       S(589, "assert_approx", conversion, 800),
       S(590, "assert_approx", R101_heat_duty, 17819),
       S(591, "assert_approx", R101_outlet_temperature, 920800) >>

ObjectiveCell == << S(616, "objective", Expr("operating_cost"), 0) >>

\* The heater outlet temperature bound is set with setlb, as line 638 does.
SetupCell_setlb_again ==
    << S(632, "fix", conversion, 900),
       S(634, "unfix", C101_outlet_pressure, 0),
       S(635, "setlb", C101_outlet_pressure, bar_to_Pa(1)),
       S(638, "setlb", C101_outlet_pressure, bar_to_Pa(10)),
       S(642, "unfix", H101_outlet_temperature, 0),
       S(643, "setlb", H101_heat_duty, 0),
       S(646, "setlb", H101_outlet_temperature, K(1000)) >>

\* The compressor efficiency is released instead of its outlet pressure.
SetupCell_unfix_efficiency ==
    << S(632, "fix", conversion, 900),
       S(634, "unfix", C101_efficiency, 0),
       S(635, "setlb", C101_outlet_pressure, bar_to_Pa(1)),
       S(638, "setlb", C101_outlet_pressure, bar_to_Pa(10)),
       S(642, "unfix", H101_outlet_temperature, 0),
       S(643, "setlb", H101_heat_duty, 0),
       S(646, "setub", H101_outlet_temperature, K(1000)) >>

\* The heater outlet temperature stays fixed.
SetupCell_without_unfix ==
    << S(632, "fix", conversion, 900),
       S(634, "unfix", C101_outlet_pressure, 0),
       S(635, "setlb", C101_outlet_pressure, bar_to_Pa(1)),
       S(638, "setlb", C101_outlet_pressure, bar_to_Pa(10)),
       S(642, "print", "unfix", 0),
       S(643, "setlb", H101_heat_duty, 0),
       S(646, "setub", H101_outlet_temperature, K(1000)) >>

\* The second bound on the compressor outlet pressure is set with setlb, as
\* the first is.
SetupCell ==
    << S(632, "fix", conversion, 900),
       S(634, "unfix", C101_outlet_pressure, 0),
       S(635, "setlb", C101_outlet_pressure, bar_to_Pa(1)),
       S(638, "setlb", C101_outlet_pressure, bar_to_Pa(10)),
       S(642, "unfix", H101_outlet_temperature, 0),
       S(643, "setlb", H101_heat_duty, 0),
       S(646, "setub", H101_outlet_temperature, K(1000)) >>

AssertDof2 == << S(659, "assert_dof", "m", 2) >>

OptSolveCell == << S(680, "solve", "m", 0) >>

OptStatusCell == << S(696, "assert_optimal", "results", 0) >>

\* The reactor outlet temperature is printed, not asserted.
OptCheckCell_without_783 ==
    << S(733, "assert_approx", Expr("operating_cost"), 1340225000),
       S(780, "assert_approx", C101_outlet_pressure, 1000000),
       S(781, "assert_approx", C101_outlet_temperature, 619248),
       S(782, "assert_approx", H101_outlet_temperature, 619248),
       S(783, "print", "R101 outlet temperature", 1087380),
       S(784, "assert_approx", Expr("hyd_prod"), 32070),
       S(785, "assert_approx", conversion, 900) >>

\* 107.218 million $/yr is 1 340 225 000 units of 0.08 $/yr.
OptCheckCell ==
    << S(733, "assert_approx", Expr("operating_cost"), 1340225000),
       S(780, "assert_approx", C101_outlet_pressure, 1000000),
       S(781, "assert_approx", C101_outlet_temperature, 619248),
       S(782, "assert_approx", H101_outlet_temperature, 619248),
       S(783, "assert_approx", R101_outlet_temperature, 1087380),
       S(784, "assert_approx", Expr("hyd_prod"), 32070),
       S(785, "assert_approx", conversion, 900) >>

\* The objective is declared before the square solve.
Program_objective_first ==
    BuildCell \o ArcCell \o ExpressionCell \o AssertDof20 \o FeedCell
    \o UnitSpecCell \o ConversionCell \o AssertDof0 \o InitCell
    \o ObjectiveCell \o SquareSolveCell \o SquareStatusCell \o SquareCheckCell
    \o SetupCell \o AssertDof2
    \o OptSolveCell \o OptStatusCell \o OptCheckCell

Program ==
    BuildCell \o ArcCell \o ExpressionCell \o AssertDof20 \o FeedCell
    \o UnitSpecCell \o ConversionCell \o AssertDof0 \o InitCell
    \o SquareSolveCell \o SquareStatusCell \o SquareCheckCell
    \o ObjectiveCell \o SetupCell \o AssertDof2
    \o OptSolveCell \o OptStatusCell \o OptCheckCell

EndLine == 817

Running == ~failed /\ pc <= Len(Program)

Stmt == Program[pc]

\* The notebook line of the next statement to run (EndLine once the script
\* has run to its end).
Line == IF pc <= Len(Program) THEN Program[pc].line ELSE EndLine

----------------------------------------------------------------------------
(* The framework's functions the script calls.                             *)

RECURSIVE SumEq(_)
SumEq(us) == IF us = {} THEN 0
             ELSE LET u == CHOOSE w \in us : TRUE IN NumEq(u) + SumEq(us \ {u})

\* Variables that occur in an active equality constraint: those of the built
\* units, and the conversion once conv_constraint mentions it.
VarsInEqualities ==
    UNION {VarsOf(u) : u \in units}
    \cup (IF "conv_constraint" \in constraints THEN {conversion} ELSE {})

\* An expanded arc equates the state variables of its two ports.
NumEqualities ==
    SumEq(units) + Cardinality(expanded) * Cardinality(StateVars)
    + Cardinality(constraints)

\* degrees_of_freedom(m): unfixed variables in active equalities, less the
\* active equalities.
degrees_of_freedom == Cardinality(VarsInEqualities \ fixed) - NumEqualities

Abs(n) == IF n < 0 THEN -n ELSE n

\* rel=1e-2 in place of rel=1e-3.
approx_percent(actual, expected) == Abs(actual - expected) <= Abs(expected) \div 100

\* actual == pytest.approx(expected, rel=1e-3): |actual - expected| is at
\* most a thousandth of |expected| (for integers, of its integer part).
approx(actual, expected) == Abs(actual - expected) <= Abs(expected) \div 1000

Val(x) == IF x \in DOMAIN val THEN << val[x] >> ELSE << >>
Lb(x)  == IF x \in DOMAIN lb THEN << lb[x] >> ELSE << >>
Ub(x)  == IF x \in DOMAIN ub THEN << ub[x] >> ELSE << >>

\* f with x set to v.
Put(f, x, v) == [y \in DOMAIN f \cup {x} |-> IF y = x THEN v ELSE f[y]]

Tracked(x) == x \in DOMAIN val

\* A variable exists once its unit is built or the script has declared it.
Exists(x) == x \in declared \/ (x[1] \in units /\ x \in VarsOf(x[1]))

\* The cost Expressions, in 1e-7 $/s for duties in kW.
cooling_cost     == 212 * val[R101_heat_duty]
heating_cost     == 2200 * val[H101_heat_duty]
compression_cost == 12000 * val[C101_work_isentropic]

\* 3600 * 8000 * (heating + cooling + compression), in 0.08 $/yr.
operating_cost ==
    IF Tracked(R101_heat_duty) /\ Tracked(H101_heat_duty) /\ Tracked(C101_work_isentropic)
    THEN << 36 * (heating_cost + cooling_cost + compression_cost) >>
    ELSE << >>

\* value(x) of a variable or an Expression.
Value(x) == IF x = Expr("operating_cost") THEN operating_cost
            ELSE IF x = Expr("hyd_prod") THEN hyd_prod
            ELSE Val(x)

----------------------------------------------------------------------------
(* What a solve may return.  The solver is outside the script: the model   *)
(* lets it end with any of three termination conditions at any of a small  *)
(* set of points, a point being the values of the variables the script     *)
(* reads afterwards.  The points lie around the two solutions the notebook *)
(* records, each moved in one coordinate by up to Spread steps; a step is  *)
(* a little over half of what the script's assertions tolerate.            *)

Spread == 2

TerminationCondition == {"optimal", "infeasible", "maxIterations"}

PointVar ==
    [Hq |-> H101_heat_duty, Rq |-> R101_heat_duty, W |-> C101_work_isentropic,
     RT |-> R101_outlet_temperature, CT |-> C101_outlet_temperature,
     HT |-> H101_outlet_temperature, CP |-> C101_outlet_pressure]

SquarePoint ==
    [Hq |-> 771, Rq |-> 17819, W |-> 700, RT |-> 920800, CT |-> 415000,
     HT |-> 500000, CP |-> 200000, hyd |-> 28000]

SquareStep ==
    [Hq |-> 4, Rq |-> 10, W |-> 1, RT |-> 600, CT |-> 600,
     HT |-> 600, CP |-> 600, hyd |-> 20]

OptPoint ==
    [Hq |-> 0, Rq |-> 22779, W |-> 2700, RT |-> 1087380, CT |-> 619248,
     HT |-> 619248, CP |-> 1000000, hyd |-> 32070]

OptStep ==
    [Hq |-> 10, Rq |-> 100, W |-> 2, RT |-> 600, CT |-> 400,
     HT |-> 400, CP |-> 600, hyd |-> 20]

Around(pt, step) ==
    {[pt EXCEPT ![f] = @ + k * step[f]] : f \in DOMAIN pt, k \in (-Spread)..Spread}

SolverPoints == Around(SquarePoint, SquareStep) \cup Around(OptPoint, OptStep)

WithinBounds(x, n) ==
    /\ (x \in DOMAIN lb) => (lb[x] <= n)
    /\ (x \in DOMAIN ub) => (n <= ub[x])

\* A point the solver can return: it agrees with every fixed variable and
\* keeps every free one within its bounds.
Feasible(pt) ==
    \A f \in DOMAIN PointVar :
        IF PointVar[f] \in fixed THEN val[PointVar[f]] = pt[f]
        ELSE WithinBounds(PointVar[f], pt[f])

\* Only the variables of the point carry a value after the solve; the
\* values of the other fixed variables are lost.
Solution_point_only(pt) ==
    [x \in {PointVar[f] : f \in DOMAIN PointVar} |->
        pt[CHOOSE f \in DOMAIN PointVar : PointVar[f] = x]]

\* The values after a solve at pt: fixed variables keep theirs, the free
\* variables of the point take the point's, the other free variables take
\* values the model does not follow.
Solution(pt) ==
    [x \in fixed \cup {PointVar[f] : f \in DOMAIN PointVar} |->
        IF x \in fixed THEN val[x]
        ELSE pt[CHOOSE f \in DOMAIN PointVar : PointVar[f] = x]]

----------------------------------------------------------------------------
(* The statements.                                                         *)

Init ==
    /\ pc = 1
    /\ failed = FALSE
    /\ units = {}
    /\ arcs = {}
    /\ expanded = {}
    /\ exprs = {}
    /\ objective = FALSE
    /\ declared = {}
    /\ constraints = {}
    /\ fixed = {}
    /\ val = << >>
    /\ lb = << >>
    /\ ub = << >>
    /\ hyd_prod = << >>
    /\ history = << >>
    /\ solver = FALSE
    /\ results = "none"
    /\ solves = 0

model == <<units, arcs, expanded, exprs, objective, declared, constraints,
           fixed, val, lb, ub, hyd_prod, history, solver, results, solves>>

At(op) == Running /\ Stmt.op = op

Advance == pc' = pc + 1 /\ failed' = failed

\* An exception or a failed assertion ends the script where it stands.
Raise == pc' = pc /\ failed' = TRUE /\ UNCHANGED model

\* m.fs.U = Feed(...), Mixer(...), ...: the unit and its variables exist.
Build ==
    /\ At("build")
    /\ units' = units \cup {Stmt.x}
    /\ Advance
    /\ UNCHANGED <<arcs, expanded, exprs, objective, declared, constraints, fixed,
                   val, lb, ub, hyd_prod, history, solver, results, solves>>

\* m.fs.sNN = Arc(source=..., destination=...): both ports must exist.
DeclareArc ==
    /\ At("arc")
    /\ IF {ArcEnds(Stmt.x).src[1], ArcEnds(Stmt.x).dst[1]} \subseteq units
       THEN /\ arcs' = arcs \cup {Stmt.x}
            /\ Advance
            /\ UNCHANGED <<units, expanded, exprs, objective, declared, constraints,
                           fixed, val, lb, ub, hyd_prod, history, solver, results, solves>>
       ELSE Raise

\* TransformationFactory("network.expand_arcs").apply_to(m): the arcs
\* declared so far become equality constraints.
ExpandArcs ==
    /\ At("expand_arcs")
    /\ expanded' = arcs
    /\ Advance
    /\ UNCHANGED <<units, arcs, exprs, objective, declared, constraints, fixed,
                   val, lb, ub, hyd_prod, history, solver, results, solves>>

ExprNeeds(e) ==
    CASE e = Expr("hyd_prod")         -> "PROD" \in units
      [] e = Expr("cooling_cost")     -> "R101" \in units
      [] e = Expr("heating_cost")     -> "H101" \in units
      [] e = Expr("compression_cost") -> "C101" \in units
      [] e = Expr("operating_cost")   ->
            {Expr("heating_cost"), Expr("cooling_cost"), Expr("compression_cost")}
                \subseteq exprs

\* m.fs.e = Expression(expr=...): what the expression mentions must exist.
DeclareExpression ==
    /\ At("expression")
    /\ IF ExprNeeds(Stmt.x)
       THEN /\ exprs' = exprs \cup {Stmt.x}
            /\ Advance
            /\ UNCHANGED <<units, arcs, expanded, objective, declared, constraints,
                           fixed, val, lb, ub, hyd_prod, history, solver, results, solves>>
       ELSE Raise

\* print(...), report(): no effect on the model.
Display ==
    /\ At("print")
    /\ Advance
    /\ UNCHANGED model

\* assert degrees_of_freedom(m) == n
AssertDof ==
    /\ At("assert_dof")
    /\ IF degrees_of_freedom = Stmt.v THEN Advance /\ UNCHANGED model ELSE Raise

\* x.fix(v)
FixVar ==
    /\ At("fix")
    /\ IF Exists(Stmt.x)
       THEN /\ fixed' = fixed \cup {Stmt.x}
            /\ val' = Put(val, Stmt.x, Stmt.v)
            /\ Advance
            /\ UNCHANGED <<units, arcs, expanded, exprs, objective, declared,
                           constraints, lb, ub, hyd_prod, history, solver, results, solves>>
       ELSE Raise

\* x.unfix()
UnfixVar ==
    /\ At("unfix")
    /\ IF Exists(Stmt.x)
       THEN /\ fixed' = fixed \ {Stmt.x}
            /\ Advance
            /\ UNCHANGED <<units, arcs, expanded, exprs, objective, declared,
                           constraints, val, lb, ub, hyd_prod, history, solver,
                           results, solves>>
       ELSE Raise

\* x.setlb(v)
SetLb ==
    /\ At("setlb")
    /\ IF Exists(Stmt.x)
       THEN /\ lb' = Put(lb, Stmt.x, Stmt.v)
            /\ Advance
            /\ UNCHANGED <<units, arcs, expanded, exprs, objective, declared,
                           constraints, fixed, val, ub, hyd_prod, history, solver,
                           results, solves>>
       ELSE Raise

\* x.setub(v)
SetUb ==
    /\ At("setub")
    /\ IF Exists(Stmt.x)
       THEN /\ ub' = Put(ub, Stmt.x, Stmt.v)
            /\ Advance
            /\ UNCHANGED <<units, arcs, expanded, exprs, objective, declared,
                           constraints, fixed, val, lb, hyd_prod, history, solver,
                           results, solves>>
       ELSE Raise

\* m.fs.R101.conversion = Var(initialize=v, bounds=(0, 1))
DeclareVar ==
    /\ At("var")
    /\ IF Stmt.x[1] \in units
       THEN /\ declared' = declared \cup {Stmt.x}
            /\ val' = Put(val, Stmt.x, Stmt.v)
            /\ lb' = Put(lb, Stmt.x, 0)
            /\ ub' = Put(ub, Stmt.x, 1000)
            /\ Advance
            /\ UNCHANGED <<units, arcs, expanded, exprs, objective, constraints,
                           fixed, hyd_prod, history, solver, results, solves>>
       ELSE Raise

\* m.fs.R101.conv_constraint = Constraint(expr=...): an equality between the
\* conversion and the reactor's inlet and outlet streams.
DeclareConstraint ==
    /\ At("constraint")
    /\ IF conversion \in declared
       THEN /\ constraints' = constraints \cup {Stmt.x}
            /\ Advance
            /\ UNCHANGED <<units, arcs, expanded, exprs, objective, declared, fixed,
                           val, lb, ub, hyd_prod, history, solver, results, solves>>
       ELSE Raise

\* m.fs.objective = Objective(expr=m.fs.operating_cost)
DeclareObjective ==
    /\ At("objective")
    /\ IF Stmt.x \in exprs
       THEN /\ objective' = TRUE
            /\ Advance
            /\ UNCHANGED <<units, arcs, expanded, exprs, declared, constraints, fixed,
                           val, lb, ub, hyd_prod, history, solver, results, solves>>
       ELSE Raise

\* unit.initialize(): the unit is solved on its own; which variables are
\* fixed is the same afterwards, and the values it computes are not followed.
Initialize ==
    /\ At("initialize")
    /\ IF Stmt.x \in units
       THEN /\ history' = Append(history, <<"initialize", Stmt.x>>)
            /\ Advance
            /\ UNCHANGED <<units, arcs, expanded, exprs, objective, declared,
                           constraints, fixed, val, lb, ub, hyd_prod, solver,
                           results, solves>>
       ELSE Raise

\* propagate_state(arc=a): copy the source port's values onto the
\* destination port's variables that are not fixed.
propagate_state(a) ==
    LET src(x) == <<ArcEnds(a).src[1], ArcEnds(a).src[2], x[3]>>
        dst    == {<<ArcEnds(a).dst[1], ArcEnds(a).dst[2], s>> : s \in StateVars} \ fixed
        copied == {x \in dst : Tracked(src(x))}
    IN  [x \in (DOMAIN val \ dst) \cup copied |->
            IF x \in copied THEN val[src(x)] ELSE val[x]]

PropagateState ==
    /\ At("propagate_state")
    /\ IF Stmt.x \in arcs
       THEN /\ val' = propagate_state(Stmt.x)
            /\ history' = Append(history, <<"propagate_state", Stmt.x>>)
            /\ Advance
            /\ UNCHANGED <<units, arcs, expanded, exprs, objective, declared,
                           constraints, fixed, lb, ub, hyd_prod, solver, results, solves>>
       ELSE Raise

\* solver = get_solver()
GetSolver ==
    /\ At("get_solver")
    /\ solver' = TRUE
    /\ Advance
    /\ UNCHANGED <<units, arcs, expanded, exprs, objective, declared, constraints,
                   fixed, val, lb, ub, hyd_prod, history, results, solves>>

\* results = solver.solve(m, tee=True)
Solve ==
    /\ At("solve")
    /\ IF solver
       THEN \E tc \in TerminationCondition, pt \in SolverPoints :
            /\ Feasible(pt)
            /\ val' = Solution(pt)
            /\ hyd_prod' = << pt.hyd >>
            /\ results' = tc
            /\ solves' = solves + 1
            /\ Advance
            /\ UNCHANGED <<units, arcs, expanded, exprs, objective, declared,
                           constraints, fixed, lb, ub, history, solver>>
       ELSE Raise

\* The termination condition is not looked at.
AssertOptimal_unchecked ==
    /\ At("assert_optimal")
    /\ Advance
    /\ UNCHANGED model

\* assert results.solver.termination_condition == TerminationCondition.optimal
AssertOptimal ==
    /\ At("assert_optimal")
    /\ IF results = "optimal" THEN Advance /\ UNCHANGED model ELSE Raise

\* assert value(x) / scale == pytest.approx(v, rel=1e-3)
AssertApprox ==
    /\ At("assert_approx")
    /\ IF Value(Stmt.x) # << >> /\ approx(Value(Stmt.x)[1], Stmt.v)
       THEN Advance /\ UNCHANGED model
       ELSE Raise

Next ==
    \/ Build \/ DeclareArc \/ ExpandArcs \/ DeclareExpression \/ Display
    \/ AssertDof \/ FixVar \/ UnfixVar \/ SetLb \/ SetUb \/ DeclareVar
    \/ DeclareConstraint \/ DeclareObjective \/ Initialize \/ PropagateState
    \/ GetSolver \/ Solve \/ AssertOptimal \/ AssertApprox

Spec == Init /\ [][Next]_vars

----------------------------------------------------------------------------
(* Vocabulary of the properties.                                           *)

\* The statement at pc is of kind op and runs to completion in this step.
Ran(op) == At(op) /\ pc' = pc + 1

\* The twenty variables the script fixes before the square solve.
Specified == FeedVars \cup {C101_outlet_pressure, C101_efficiency,
                            H101_outlet_temperature, conversion}

\* The value a cell's fix statement gives x.
FixedBy(cell, x) ==
    cell[CHOOSE i \in 1..Len(cell) : cell[i].op = "fix" /\ cell[i].x = x].v

Built == units = Units /\ arcs = Arcs /\ expanded = Arcs

\* The model holds a value of x, and it lies in lo..hi.
Between(x, lo, hi) == Tracked(x) /\ lo <= val[x] /\ val[x] <= hi

CostBetween(lo, hi) ==
    operating_cost # << >> /\ lo <= operating_cost[1] /\ operating_cost[1] <= hi

\* The degrees of freedom the notebook's text gives each unit before anything
\* is fixed (the product block, which it does not mention, has none).
Breakdown ==
    [CH4 |-> 8, H2O |-> 8, M101 |-> 0, C101 |-> 2, H101 |-> 1, R101 |-> 1,
     PROD |-> 0]

\* The share of unit u in degrees_of_freedom(m): its unfixed variables in
\* equalities, less its own equalities, the equalities of the expanded arcs
\* that end at one of its inlets, and the constraints the script adds to the
\* reactor.
DofOf(u) ==
    Cardinality({x \in VarsInEqualities \ fixed : x[1] = u})
    - (IF u \in units THEN NumEq(u) ELSE 0)
    - Cardinality({a \in expanded : ArcEnds(a).dst[1] = u}) * Cardinality(StateVars)
    - (IF u = conversion[1] THEN Cardinality(constraints) ELSE 0)

RECURSIVE SumDof(_)
SumDof(us) == IF us = {} THEN 0
              ELSE LET u == CHOOSE w \in us : TRUE IN DofOf(u) + SumDof(us \ {u})

----------------------------------------------------------------------------
(* C1.  Once the seven units are built, the six arcs declared and          *)
(* expanded, and nothing is fixed yet, degrees_of_freedom(m) is 20; that   *)
(* is the state in which the script evaluates the assertion of line 345.   *)

C1_DofAfterBuild ==
    /\ (Built /\ fixed = {} /\ constraints = {}) => degrees_of_freedom = 20
    /\ (Line = 345) => (Built /\ fixed = {} /\ constraints = {})

\* The assertion of line 345 has passed.
C1_Witness == Line = 361 /\ ~failed /\ degrees_of_freedom = 20

----------------------------------------------------------------------------
(* C2.  Each of the twenty fix statements of lines 361..427 lowers         *)
(* degrees_of_freedom(m) by exactly one, declaring the conversion and its  *)
(* constraint leaves it as it is, and when the script reaches the          *)
(* assertion of line 457 exactly the twenty specified variables are fixed  *)
(* and degrees_of_freedom(m) is 0.                                         *)

C2_SquareAfterFixes ==
    /\ [](Line = 457 => fixed = Specified /\ degrees_of_freedom = 0)
    /\ [][(Ran("fix") /\ Line <= 427)
            => degrees_of_freedom' = degrees_of_freedom - 1]_vars
    /\ [][(Ran("var") \/ Ran("constraint"))
            => degrees_of_freedom' = degrees_of_freedom]_vars

\* The assertion of line 457 has passed on the square model.
C2_Witness ==
    Line = 474 /\ ~failed /\ Cardinality(fixed) = 20 /\ degrees_of_freedom = 0

----------------------------------------------------------------------------
(* C3.  When the script reaches the assertion of line 659, after the       *)
(* set-up cell, degrees_of_freedom(m) is 2; no setlb, setub or Objective   *)
(* statement changes degrees_of_freedom(m).                                *)

C3_DofAfterSetup ==
    /\ [](Line = 659 => degrees_of_freedom = 2)
    /\ [][(Ran("setlb") \/ Ran("setub") \/ Ran("objective"))
            => degrees_of_freedom' = degrees_of_freedom]_vars

\* The assertion of line 659 has passed, with the bounds set.
C3_Witness ==
    /\ Line = 680 /\ ~failed /\ degrees_of_freedom = 2
    /\ Lb(H101_heat_duty) # << >> /\ Ub(H101_outlet_temperature) # << >>

----------------------------------------------------------------------------
(* C4.  The phases run in a fixed order.  A solve is invoked at most       *)
(* twice.  The first is invoked with degrees_of_freedom(m) = 0 and no      *)
(* objective; the objective is declared, and variables are unfixed, only   *)
(* after the first solve has returned; the second is invoked with the      *)
(* objective declared, exactly two of the specified variables unfixed and  *)
(* degrees_of_freedom(m) = 2.                                              *)

C4_PhaseOrder ==
    /\ [](At("solve") => solves \in {0, 1})
    /\ []((At("solve") /\ solves = 0)
            => degrees_of_freedom = 0 /\ ~objective /\ fixed = Specified)
    /\ []((At("solve") /\ solves = 1)
            => /\ degrees_of_freedom = 2
               /\ objective
               /\ fixed \subseteq Specified
               /\ Cardinality(Specified \ fixed) = 2)
    /\ [](objective => solves >= 1)
    /\ [][(Ran("objective") \/ Ran("unfix")) => solves = 1]_vars

\* The second solve is about to be invoked.
C4_Witness ==
    At("solve") /\ solves = 1 /\ objective /\ degrees_of_freedom = 2

----------------------------------------------------------------------------
(* The variables that stay specified through both problems, and the values *)
(* the feed and unit-specification cells gave them.                        *)

C5_Kept == FeedVars \cup {C101_efficiency}

C5_OriginalValues ==
    /\ \A x \in FeedVars : Val(x) = << FixedBy(FeedCell, x) >>
    /\ Val(C101_efficiency) = << FixedBy(UnitSpecCell, C101_efficiency) >>

----------------------------------------------------------------------------
(* C5.  From the first solve on, the only variables that leave the fixed   *)
(* set are C101 outlet pressure and H101 outlet temperature and none       *)
(* enters it; the sixteen feed variables and the C101 efficiency stay      *)
(* fixed at the values lines 361..396 gave them, and the conversion stays  *)
(* fixed, at 0.80 for the first solve and at 0.90 for the second.          *)

C5_FixedSetFrame ==
    /\ []((At("solve") /\ solves = 0)
            => fixed = Specified /\ C5_OriginalValues /\ Val(conversion) = << 800 >>)
    /\ []((At("solve") /\ solves = 1)
            => /\ fixed = Specified \ {C101_outlet_pressure, H101_outlet_temperature}
               /\ C5_OriginalValues
               /\ Val(conversion) = << 900 >>)
    /\ [][solves >= 1
            => /\ fixed' \subseteq fixed
               /\ fixed \ fixed' \subseteq {C101_outlet_pressure, H101_outlet_temperature}
               /\ \A x \in C5_Kept : Val(x)' = Val(x)]_vars

\* The second solve is about to be invoked on the relaxed model.
C5_Witness ==
    /\ At("solve") /\ solves = 1
    /\ C101_outlet_pressure \notin fixed /\ H101_outlet_temperature \notin fixed
    /\ Val(conversion) = << 900 >>

----------------------------------------------------------------------------
(* C6.  After a solve the script stands anywhere but at the assertion      *)
(* directly behind that solve (line 523, line 696) only if the solve       *)
(* reported "optimal"; with any other termination condition that           *)
(* assertion stops the script where it stands.  So a run that gets past    *)
(* line 696 has seen "optimal" from both solves.                           *)

C6_OptimalOrStop ==
    /\ []((solves >= 1 /\ results # "optimal") => Line \in {523, 696})
    /\ [][(At("assert_optimal") /\ results # "optimal")
            => failed' /\ pc' = pc]_vars
    /\ [][(At("assert_optimal") /\ results = "optimal")
            => ~failed' /\ pc' = pc + 1]_vars
    /\ [](Line \in {523, 696} => solves >= 1)

\* The script is checking the results of the second solve.
C6_Witness ==
    solves = 2 /\ Line = 733 /\ ~failed /\ results = "optimal"

----------------------------------------------------------------------------
(* C7.  Once the script is past the square-problem assertions (line 591)   *)
(* and until the second solve, the operating cost is within 1e-3 of        *)
(* 39.958 million $/yr (498 975 525 .. 499 974 475 units of 0.08 $), the   *)
(* R101 heat duty within 1e-3 of 17.819 MW, the R101 outlet temperature    *)
(* within 1e-3 of 920.8 K; the conversion is 0.80 until line 632 fixes it  *)
(* anew.                                                                   *)

----------------------------------------------------------------------------
(* C8.  Once the script has run to its end, past the assertions of lines   *)
(* 733..785, the operating cost is within 1e-3 of 107.218 million $/yr,    *)
(* the C101 outlet pressure within 1e-3 of 1.000 MPa, the C101 and H101    *)
(* outlet temperatures each within 1e-3 of 619.248 K, the R101 outlet      *)
(* temperature within 1e-3 of 1087.38 K, the hydrogen production within    *)
(* 1e-3 of 32.070 MM lb/yr, and the conversion is 0.90.                    *)

----------------------------------------------------------------------------
(* C9.  In the optimization problem the C101 outlet pressure has lower     *)
(* bound 1 bar and upper bound 10 bar, and the value the second solve      *)
(* returns for it lies between 1 bar and 10 bar.                           *)

C9_PressureWindow ==
    (solves = 2) =>
        /\ Lb(C101_outlet_pressure) = << bar_to_Pa(1) >>
        /\ Ub(C101_outlet_pressure) = << bar_to_Pa(10) >>
        /\ Between(C101_outlet_pressure, bar_to_Pa(1), bar_to_Pa(10))

----------------------------------------------------------------------------
(* C10.  After the set-up cell, so when the second solve is invoked and    *)
(* ever after, H101.heat_duty[0] has lower bound 0 and                     *)
(* H101.outlet.temperature[0] has upper bound 1000 K; what the second      *)
(* solve returns respects both.                                            *)

C10_HeaterBounds ==
    /\ (Line > 646 \/ (At("solve") /\ solves = 1) \/ solves = 2)
        => /\ Lb(H101_heat_duty) = << 0 >>
           /\ Ub(H101_outlet_temperature) = << K(1000) >>
    /\ (solves = 2)
        => /\ Tracked(H101_heat_duty) /\ val[H101_heat_duty] >= 0
           /\ Tracked(H101_outlet_temperature)
           /\ val[H101_outlet_temperature] <= K(1000)

\* The second solve has returned a heater duty above its lower bound.
C10_Witness ==
    solves = 2 /\ Tracked(H101_heat_duty) /\ val[H101_heat_duty] > 0

----------------------------------------------------------------------------
(* C11.  When the script evaluates the assertion of line 345 the 20        *)
(* degrees of freedom are shared out as the notebook's text says: 8 on     *)
(* each feed, 0 on the mixer, 2 on the compressor, 1 on the heater, 1 on   *)
(* the reactor, 0 on the product; the shares always add up to              *)
(* degrees_of_freedom(m).  The conversion does not exist at that point:    *)
(* the other nineteen variables the script fixes are among the free        *)
(* variables counted, and the reactor's one is a freedom of its built      *)
(* variables.  Declaring the conversion and conv_constraint leaves the     *)
(* reactor's share at 1 with the conversion now a free variable in an      *)
(* equality; each fix of lines 361..427 takes one from the share of the    *)
(* unit it is made on and from no other, and at line 457 every share is 0. *)

----------------------------------------------------------------------------
(* What the history of initialize and propagate_state calls says.          *)

Times(e) == Cardinality({i \in 1..Len(history) : history[i] = e})

\* Event e has happened, and before the i-th event of the history.
Before(e, i) == \E j \in 1..(i - 1) : history[j] = e

InitOf(u) == <<"initialize", u>>

PropagationOf(a) == <<"propagate_state", a>>

----------------------------------------------------------------------------
(* C12.  No unit is initialized twice and no arc propagated twice.  An arc *)
(* is propagated only after its source unit has been initialized and       *)
(* before its destination unit is; a unit is initialized only after every  *)
(* arc that ends at it has been propagated (for M101 both s01 and s02).    *)
(* When the first solve is invoked every unit has been initialized once,   *)
(* PROD last, and every arc s01..s06 propagated once; from then on nothing *)
(* is initialized or propagated.                                           *)

C12_SequentialInitialization ==
    /\ \A u \in Units : Times(InitOf(u)) <= 1
    /\ \A a \in Arcs : Times(PropagationOf(a)) <= 1
    /\ \A i \in 1..Len(history) : \A a \in Arcs :
          (history[i] = PropagationOf(a))
            => /\ Before(InitOf(ArcEnds(a).src[1]), i)
               /\ ~Before(InitOf(ArcEnds(a).dst[1]), i)
    /\ \A i \in 1..Len(history) : \A u \in Units :
          (history[i] = InitOf(u))
            => \A a \in Arcs :
                 (ArcEnds(a).dst[1] = u) => Before(PropagationOf(a), i)
    /\ (solves >= 1 \/ At("solve"))
          => /\ \A u \in Units : Times(InitOf(u)) = 1
             /\ \A a \in Arcs : Times(PropagationOf(a)) = 1
             /\ Len(history) = Cardinality(Units) + Cardinality(Arcs)
             /\ history[Len(history)] = InitOf("PROD")

\* The first solve is about to be invoked on the initialized flowsheet.
C12_Witness ==
    /\ At("solve") /\ solves = 0
    /\ Times(InitOf("PROD")) = 1 /\ Times(PropagationOf("s06")) = 1

----------------------------------------------------------------------------
(* C13.  A solve leaves the fixed set, the value of every fixed variable   *)
(* and all bounds as they are.  From the first solve until line 632 fixes  *)
(* it anew the conversion is fixed at 0.80, after the second solve it is   *)
(* fixed at 0.90; from its declaration on its bounds are 0 and 1 and its   *)
(* value lies within them.  After either solve the sixteen feed variables  *)
(* and the compressor efficiency are fixed at the values lines 361..396    *)
(* gave them.                                                              *)

====
